---- MODULE Spec2Model ----
(***************************************************************************)
(* DataForge AI backend: the EDA analyzer (cache by content hash, result   *)
(* lifecycle) and the model trainer (candidate training, best-model        *)
(* selection, job lifecycle and progress), as state machines over the      *)
(* persisted rows and the position of each request / task.                 *)
(***************************************************************************)
EXTENDS Integers, Sequences, FiniteSets, TLC

\* ---------------------------------------------------------------- bounds
NumDatasets == 2
MaxEda == 2
MaxMetric == 1
NumSavers == 2
MaxPredJobs == 2
MaxRecords == 2
MaxRows == 1
MaxDistinct == 21
MaxEach == 21
MaxNan == 1
MaxClasses == 2
MaxCount == 13
MaxModels == 3

Datasets == 1..NumDatasets
Hashes == {"h1", "h2"}
EdaMsgs == {"analysis_error"}
NoMetric == -1
Metrics == {NoMetric} \cup (0..MaxMetric)
TaskTypes == {"classification", "regression"}

VARIABLES
    content,      \* dataset -> sha256 of the bytes of its file (Dataset.file)
    file_hash,    \* dataset -> persisted Dataset.file_hash ("" until computed)
    eda_results,  \* the eda_results table; index = id = creation order
    runs,         \* row id -> the request (view call or task) that owns the row
    last_hit,     \* the last synchronous cache hit, as returned to its caller
    jobs,         \* the training_jobs table
    models,       \* the trained_models table
    runner,       \* job id -> position and locals of the run of ModelTrainerService.train
    saves,        \* creator -> its call of EDAResult.save(), between the read and the insert
    lookup,       \* the last call of _get_cached_result: its key and what it returned
    pred_jobs,    \* the prediction_jobs table
    pred_runs,    \* job id -> the view call or task that runs the job
    pred_call,    \* one call of PredictionService.predict: its inputs, position and result
    db,           \* which rows of the five tables exist, with their foreign keys
    call          \* one call of a pure function of the trainer or evaluator: inputs and result

edaVars == <<content, file_hash, eda_results, runs, last_hit>>
mlVars == <<jobs, models, runner>>
extVars == <<saves, lookup, pred_jobs, pred_runs, pred_call, db, call>>
vars == <<content, file_hash, eda_results, runs, last_hit, jobs, models, runner, extVars>>

\* ------------------------------------------------------------------- EDA

\* Dataset.compute_file_hash: sha256 of the file content.
compute_file_hash(d) == content[d]

\* EDAResult.save on a new row: version = latest version of the dataset + 1.
NextVersion(rows, d) ==
    LET vs == {rows[i].version : i \in {k \in 1..Len(rows) : rows[k].dataset = d}}
    IN  IF vs = {} THEN 1 ELSE (CHOOSE v \in vs : \A w \in vs : w <= v) + 1

\* EDAResult.objects.create(dataset=d, status=st): every other field default.
NewEdaResult(rows, d, st) ==
    [dataset |-> d, status |-> st, cache_key |-> "", error_message |-> "",
     ai_insights |-> "", populated |-> FALSE, version |-> NextVersion(rows, d)]

\* A cache lookup that never finds anything.
GetCachedNone(rows, key) == 0

\* A cache lookup that does not filter on the status.
GetCachedAnyStatus(rows, key) ==
    LET ids == {i \in 1..Len(rows) : rows[i].cache_key = key}
    IN  IF ids = {} THEN 0 ELSE CHOOSE i \in ids : \A k \in ids : k <= i

\* EDAAnalyzerService._get_cached_result: the most recently created COMPLETED
\* row with this cache key; 0 stands for None.
_get_cached_result(rows, key) ==
    LET ids == {i \in 1..Len(rows) :
                    rows[i].cache_key = key /\ rows[i].status = "completed"}
    IN  IF ids = {} THEN 0 ELSE CHOOSE i \in ids : \A k \in ids : k <= i

\* The most recent synchronous call of analyze that returned a cached row, as
\* the caller saw it; NoHit after any other step.
NoHit == [dataset |-> 0, returned |-> 0]

\* The request that owns a row: where it stands, how it was made, what analyze
\* returned to it (0: nothing yet) and what was raised.
NewRun(pc, run_async, force_refresh) ==
    [pc |-> pc, run_async |-> run_async, force_refresh |-> force_refresh,
     returned |-> 0, exc |-> "", raised |-> "", ai |-> "", limit |-> "",
     overlap |-> FALSE]

\* EDAAnalyzerService.analyze lines 64-71: the dataset's file hash, computed
\* and saved when it is still empty.
\* A dataset whose hash is never computed.
FileHashEmpty(d) == ""

FileHashAfter(d) == IF file_hash[d] = "" THEN compute_file_hash(d) ELSE file_hash[d]

\* EDAAnalyzerService.analyze(eda_result, force_refresh) on dataset d up to
\* the try block, on the table rows and the requests rs as its caller left
\* them: file hash, cache lookup, then the provided row (eda_result # 0) is
\* set RUNNING or a RUNNING row is created for the calling request req.
\* The runs that are computing on the content of dataset d while run k starts
\* computing on it.
Overlapping(rows, rs, k, d) ==
    {i \in (1..Len(rows)) \ {k} :
        rs[i].pc = "computing" /\ content[rows[i].dataset] = content[d]}

\* Run k has passed the cache check for dataset d: it and the runs computing
\* on the same content at that moment are marked as overlapping.
MarkOverlap(rows, rs, k, d) ==
    LET others == Overlapping(rows, rs, k, d)
    IN [i \in 1..Len(rs) |->
            IF i \in others \/ (i = k /\ others # {})
            THEN [rs[i] EXCEPT !.overlap = TRUE]
            ELSE rs[i]]

AnalyzeStart(d, rows, rs, eda_result, force_refresh, req) ==
    LET cache_key == FileHashAfter(d)
        cached    == _get_cached_result(rows, cache_key)
    IN
    /\ file_hash' = [file_hash EXCEPT ![d] = cache_key]
    /\ IF ~force_refresh /\ cache_key # "" /\ cached # 0
       THEN /\ eda_results' = rows
            /\ IF eda_result # 0
               THEN /\ runs' = [rs EXCEPT ![eda_result].pc = "done",
                                          ![eda_result].returned = cached]
                    /\ last_hit' = NoHit
               ELSE /\ runs' = rs
                    /\ last_hit' = [dataset |-> d, returned |-> cached]
       ELSE IF eda_result # 0
       THEN /\ eda_results' = [rows EXCEPT ![eda_result].status = "running"]
            /\ runs' = MarkOverlap(rows, [rs EXCEPT ![eda_result].pc = "computing"],
                                   eda_result, d)
            /\ last_hit' = NoHit
       ELSE /\ Len(rows) < MaxEda
            /\ eda_results' = Append(rows, NewEdaResult(rows, d, "running"))
            /\ runs' = MarkOverlap(rows, Append(rs, [req EXCEPT !.pc = "computing"]),
                                   Len(rows) + 1, d)
            /\ last_hit' = NoHit

\* TriggerEDAView.post, async branch: create a PENDING row and dispatch the
\* task with (dataset_id, eda_result_id); force_refresh is not passed on.
TriggerEDAAsync(d, force) ==
    /\ Len(eda_results) < MaxEda
    /\ eda_results' = Append(eda_results, NewEdaResult(eda_results, d, "pending"))
    /\ runs' = Append(runs, NewRun("queued", TRUE, force))
    /\ last_hit' = NoHit
    /\ UNCHANGED <<extVars, content, file_hash, jobs, models, runner>>

\* TriggerEDAView.post, synchronous branch: analyze(force_refresh=force).
TriggerEDASync(d, force) ==
    /\ AnalyzeStart(d, eda_results, runs, 0, force, NewRun("view", FALSE, force))
    /\ UNCHANGED <<extVars, content, jobs, models, runner>>

\* The status run_eda_task writes before calling analyze.
TaskStartStatus == "running"

\* run_eda_task up to the try block of analyze: the row is set RUNNING and
\* analyze is called with eda_result=row and the default force_refresh=False.
RunEdaTask(i) ==
    /\ runs[i].pc = "queued"
    /\ AnalyzeStart(eda_results[i].dataset,
                    [eda_results EXCEPT ![i].status = TaskStartStatus],
                    runs, i, FALSE, runs[i])
    /\ UNCHANGED <<extVars, content, jobs, models, runner>>

\* GeminiService._fallback_eda_insights: a text built from the rule-based
\* insights, never empty.
_fallback_eda_insights == "fallback"

\* GeminiService.generate_eda_insights: the collaborator's text, or the
\* fallback text when generate_content raises.
generate_eda_insights(call_ok) == IF call_ok THEN "text" ELSE _fallback_eda_insights

\* A narrative step that turns every failure into the empty string.
GenerateAiInsightsEmpty(cur, ai) == IF ai = "ok" THEN "text" ELSE ""

\* EDAAnalyzerService._generate_ai_insights, the value of ai_insights after
\* it. ai "unavailable": the collaborator is not configured and the step
\* returns without touching the field; "ok" and "call_fails": the outcome of
\* the collaborator's call; "raises": the step itself raises and its except
\* block stores "".
_generate_ai_insights(cur, ai) ==
    CASE ai = "unavailable" -> cur
      [] ai = "ok"          -> generate_eda_insights(TRUE)
      [] ai = "call_fails"  -> generate_eda_insights(FALSE)
      [] ai = "raises"      -> ""

\* analyze lines 94-137 without an exception; runs[i].ai records how the
\* narrative step went.
AnalyzeComplete(i, ai) ==
    /\ runs[i].pc = "computing"
    /\ eda_results' = [eda_results EXCEPT ![i] =
                          [@ EXCEPT !.populated = TRUE,
                                    !.ai_insights = _generate_ai_insights(@, ai),
                                    !.status = "completed",
                                    !.cache_key = file_hash[eda_results[i].dataset]]]
    /\ runs' = [runs EXCEPT ![i].pc = "done", ![i].returned = i, ![i].ai = ai]
    /\ last_hit' = NoHit
    /\ UNCHANGED <<extVars, content, file_hash, jobs, models, runner>>

\* An except block that loses the failure.
AnalyzeErrorRowLost(row, msg) == [row EXCEPT !.status = "running"]

\* The row the except block of analyze persists.
AnalyzeErrorRow(row, msg) ==
    [row EXCEPT !.status = "error", !.error_message = msg]

\* EDAAnalyzerService.analyze, a statement of the try block raising msg: the
\* except block records it and raises EDAError.
AnalyzeFail(i, msg) ==
    /\ runs[i].pc = "computing"
    /\ eda_results' = [eda_results EXCEPT ![i] = AnalyzeErrorRow(@, msg)]
    /\ runs' = [runs EXCEPT
                    ![i].pc = IF runs[i].run_async THEN "task_except" ELSE "done",
                    ![i].exc = msg,
                    ![i].raised = "EDAError"]
    /\ last_hit' = NoHit
    /\ UNCHANGED <<extVars, content, file_hash, jobs, models, runner>>

\* A task handler that puts the row back for another attempt.
TaskExceptStatusRetry == "pending"

\* The status the except block of run_eda_task writes.
TaskExceptStatus == "error"

\* run_eda_task, except Exception: status ERROR is saved, nothing is re-raised.
EdaTaskExcept(i) ==
    /\ runs[i].pc = "task_except"
    /\ eda_results' = [eda_results EXCEPT ![i].status = TaskExceptStatus]
    /\ runs' = [runs EXCEPT ![i].pc = "done", ![i].raised = ""]
    /\ last_hit' = NoHit
    /\ UNCHANGED <<extVars, content, file_hash, jobs, models, runner>>

\* ---------------------------------------------------------- ML training

\* len(CLASSIFICATION_MODELS) = len(REGRESSION_MODELS): the candidates of a job.
NumCandidates == 4

\* The declared order of CLASSIFICATION_MODELS / REGRESSION_MODELS.
CandidateName(task_type, c) ==
    IF task_type = "classification"
    THEN <<"logistic_regression", "random_forest", "gradient_boosting", "svm">>[c]
    ELSE <<"linear_regression", "random_forest", "gradient_boosting", "svm">>[c]

\* float('inf'): larger than every rmse.
Infinity == MaxMetric + 1

\* m.metrics.get('f1_weighted', 0)
F1Key(m) == IF m.metric = NoMetric THEN 0 ELSE m.metric

\* A missing rmse counted as 0.
RmseKeyZero(m) == IF m.metric = NoMetric THEN 0 ELSE m.metric

\* m.metrics.get('rmse', float('inf'))
RmseKey(m) == IF m.metric = NoMetric THEN Infinity ELSE m.metric

\* Python max(ids, key=...): the first element whose key is maximal; keys[n]
\* is the key of ids[n].
MaxFirst(ids, keys) ==
    ids[CHOOSE k \in 1..Len(ids) :
            /\ \A n \in 1..Len(ids) : keys[n] <= keys[k]
            /\ \A n \in 1..(k - 1) : keys[n] < keys[k]]

\* Python min(ids, key=...): the first element whose key is minimal.
MinFirst(ids, keys) ==
    ids[CHOOSE k \in 1..Len(ids) :
            /\ \A n \in 1..Len(ids) : keys[n] >= keys[k]
            /\ \A n \in 1..(k - 1) : keys[n] > keys[k]]

\* A selection with the two orders swapped.
SelectBestSwapped(ms, trained_models, task_type) ==
    IF task_type = "classification"
    THEN MinFirst(trained_models,
                  [n \in 1..Len(trained_models) |-> F1Key(ms[trained_models[n]])])
    ELSE MaxFirst(trained_models,
                  [n \in 1..Len(trained_models) |-> RmseKey(ms[trained_models[n]])])

\* ModelTrainerService._select_best_model: the model to mark as best among
\* trained_models (a non-empty list of ids into the table ms).
_select_best_model(ms, trained_models, task_type) ==
    IF task_type = "classification"
    THEN MaxFirst(trained_models,
                  [n \in 1..Len(trained_models) |-> F1Key(ms[trained_models[n]])])
    ELSE MinFirst(trained_models,
                  [n \in 1..Len(trained_models) |-> RmseKey(ms[trained_models[n]])])

\* ModelTrainerService._train_all_models line 301, for the c-th candidate
\* (c = i + 1).
CandidateProgress(c, total_models) == 30 + ((60 * c) \div total_models)

\* ModelTrainerService._update_status: status and step always, progress only
\* when one is given (None is modelled as -1), then save.
_update_status(job, status, step, progress) ==
    [job EXCEPT !.status = status, !.current_step = step,
                !.progress = IF progress = -1 THEN @ ELSE progress]

\* TrainingJob.objects.create in TriggerTrainingView.post.
NewJob(task_type) ==
    [task_type |-> task_type, status |-> "pending", progress |-> 0,
     current_step |-> "", best_model |-> 0, error_message |-> ""]

\* shap_failed: the candidates whose SHAP computation failed.
\* preprocessor_fits: how many fits of self.preprocessor have completed.
NewRunner(run_async) ==
    [pc |-> IF run_async THEN "queued" ELSE "train", run_async |-> run_async,
     i |-> 0, trained_models |-> <<>>, best |-> 0, exc |-> "", raised |-> "",
     shap_failed |-> {}, preprocessor_fits |-> 0]

\* TriggerTrainingView.post up to the dispatch of the task or the call of
\* train. One training job is followed from its creation to its end.
TriggerTraining(task_type, run_async) ==
    /\ jobs = <<>>
    /\ jobs' = <<NewJob(task_type)>>
    /\ runner' = <<NewRunner(run_async)>>
    /\ UNCHANGED <<extVars, content, file_hash, eda_results, runs, last_hit, models>>

\* train_models_task lines 29-33: status RUNNING, save(update_fields=['status']).
TrainModelsTask(j) ==
    /\ runner[j].pc = "queued"
    /\ jobs' = [jobs EXCEPT ![j].status = "running"]
    /\ runner' = [runner EXCEPT ![j].pc = "train"]
    /\ UNCHANGED <<extVars, content, file_hash, eda_results, runs, last_hit, models>>

\* The row the except block of train persists (self.job.save() writes every
\* field of the in-memory job, best_model included).
TrainErrorJobResetProgress(job, msg, best_model) ==
    [job EXCEPT !.status = "error", !.error_message = msg,
                !.best_model = best_model, !.progress = 0]

TrainErrorJobNoMessage(job, msg, best_model) ==
    [job EXCEPT !.status = "error", !.best_model = best_model]

TrainErrorJob(job, msg, best_model) ==
    [job EXCEPT !.status = "error", !.error_message = msg,
                !.best_model = best_model]

\* ModelTrainerService.train, except Exception: the job is saved as ERROR with
\* str(e) and TrainingError is raised (to the view, or to the task).
TrainFail(j, msg, best_model) ==
    /\ jobs' = [jobs EXCEPT ![j] = TrainErrorJob(@, msg, best_model)]
    /\ runner' = [runner EXCEPT
                    ![j].pc = IF runner[j].run_async THEN "task_except" ELSE "done",
                    ![j].exc = msg,
                    ![j].raised = "TrainingError"]

\* train line 128-130: the first checkpoint.
TrainStart(j) ==
    /\ runner[j].pc = "train"
    /\ jobs' = [jobs EXCEPT ![j] = _update_status(@, "running", "Loading data", -1)]
    /\ runner' = [runner EXCEPT ![j].pc = "load"]
    /\ UNCHANGED <<extVars, content, file_hash, eda_results, runs, last_hit, models>>

\* train lines 133-137: _load_dataset and _prepare_features, then the
\* 'Splitting data' checkpoint; or one of them raises.
LoadData(j, ok) ==
    /\ runner[j].pc = "load"
    /\ IF ok
       THEN /\ jobs' = [jobs EXCEPT ![j] =
                           _update_status(@, "running", "Splitting data", 10)]
            /\ runner' = [runner EXCEPT ![j].pc = "split"]
       ELSE TrainFail(j, "load_error", 0)
    /\ UNCHANGED <<extVars, content, file_hash, eda_results, runs, last_hit, models>>

\* train lines 138-141: _split_data, then the 'Creating preprocessor' checkpoint.
SplitData(j, ok) ==
    /\ runner[j].pc = "split"
    /\ IF ok
       THEN /\ jobs' = [jobs EXCEPT ![j] =
                           _update_status(@, "running", "Creating preprocessor", 20)]
            /\ runner' = [runner EXCEPT ![j].pc = "preprocess"]
       ELSE TrainFail(j, "split_error", 0)
    /\ UNCHANGED <<extVars, content, file_hash, eda_results, runs, last_hit, models>>

\* train lines 142-145: _create_preprocessor, then the 'Training models'
\* checkpoint.
CreatePreprocessor(j, ok) ==
    /\ runner[j].pc = "preprocess"
    /\ IF ok
       THEN /\ jobs' = [jobs EXCEPT ![j] =
                           _update_status(@, "running", "Training models", 30)]
            /\ runner' = [runner EXCEPT ![j].pc = "candidates",
                                         ![j].preprocessor_fits = 1]
       ELSE TrainFail(j, "preprocess_error", 0)
    /\ UNCHANGED <<extVars, content, file_hash, eda_results, runs, last_hit, models>>

\* _train_all_models lines 300-306: the checkpoint before the next candidate.
\* The display_name of the c-th configuration, in reverse of the declared order.
DisplayNameReversed(task_type, c) ==
    IF task_type = "classification"
    THEN <<"Support Vector Machine", "Gradient Boosting", "Random Forest",
           "Logistic Regression">>[c]
    ELSE <<"Support Vector Machine", "Gradient Boosting", "Random Forest",
           "Linear Regression">>[c]

\* config['display_name'] of the c-th entry of CLASSIFICATION_MODELS or
\* REGRESSION_MODELS, in declaration (dict iteration) order.
DisplayName(task_type, c) ==
    IF task_type = "classification"
    THEN <<"Logistic Regression", "Random Forest", "Gradient Boosting",
           "Support Vector Machine">>[c]
    ELSE <<"Linear Regression", "Random Forest", "Gradient Boosting",
           "Support Vector Machine">>[c]

BeginCandidate(j) ==
    LET c == runner[j].i + 1 IN
    /\ runner[j].pc = "candidates"
    /\ jobs' = [jobs EXCEPT ![j] =
                   _update_status(@, "running",
                                  "Training " \o DisplayName(jobs[j].task_type, c),
                                  CandidateProgress(c, NumCandidates))]
    /\ runner' = [runner EXCEPT ![j].pc = "fit"]
    /\ UNCHANGED <<extVars, content, file_hash, eda_results, runs, last_hit, models>>

\* TrainedModel.objects.create in _train_single_model.
NewModel(j, name, metric) ==
    [training_job |-> j, name |-> name, metric |-> metric, is_best |-> FALSE,
     model_size |-> 0, shap_values |-> "summary"]

\* SHAPExplainerService.compute_shap_values: the summary, or the empty dict
\* (modelled as "") when anything inside it raises.
compute_shap_values(shap_ok) == IF shap_ok THEN "summary" ELSE ""

\* A candidate loop without the try/except: a raising candidate ends the run.
TrainSingleModelFatal(j, outcome, metric) ==
    LET c    == runner[j].i + 1
        name == CandidateName(jobs[j].task_type, c)
        id   == Len(models) + 1
    IN
    /\ runner[j].pc = "fit"
    /\ models' = CASE outcome = "ok" ->
                        Append(models, [NewModel(j, name, metric) EXCEPT !.model_size = 1])
                   [] outcome = "raise_late" ->
                        Append(models, NewModel(j, name, metric))
                   [] OTHER -> models
    /\ IF outcome = "ok"
       THEN /\ runner' = [runner EXCEPT
                            ![j].i = c,
                            ![j].trained_models = Append(@, id),
                            ![j].preprocessor_fits = @ + 1,
                            ![j].pc = IF c = NumCandidates THEN "trained"
                                                           ELSE "candidates"]
            /\ UNCHANGED jobs
       ELSE /\ jobs' = [jobs EXCEPT ![j] = TrainErrorJob(@, "fit_error", 0)]
            /\ runner' = [runner EXCEPT
                            ![j].i = c,
                            ![j].pc = IF runner[j].run_async THEN "task_except"
                                                             ELSE "done",
                            ![j].exc = "fit_error",
                            ![j].raised = "TrainingError"]
    /\ UNCHANGED <<extVars, content, file_hash, eda_results, runs, last_hit>>

\* A candidate whose SHAP computation fails is dropped like a failed one.
TrainSingleModelShapFatal(j, outcome, metric) ==
    LET c    == runner[j].i + 1
        name == CandidateName(jobs[j].task_type, c)
        id   == Len(models) + 1
    IN
    /\ runner[j].pc = "fit"
    /\ models' = CASE outcome = "ok" ->
                        Append(models, [NewModel(j, name, metric) EXCEPT !.model_size = 1])
                   [] outcome = "raise_late" ->
                        Append(models, NewModel(j, name, metric))
                   [] OTHER -> models
    /\ runner' = [runner EXCEPT
                    ![j].i = c,
                    ![j].trained_models = IF outcome = "ok" THEN Append(@, id) ELSE @,
                    ![j].shap_failed = IF outcome = "shap_failed" THEN @ \cup {c} ELSE @,
                    ![j].preprocessor_fits = IF outcome = "raise_early" THEN @ ELSE @ + 1,
                    ![j].pc = IF c = NumCandidates THEN "trained" ELSE "candidates"]
    /\ UNCHANGED <<extVars, content, file_hash, eda_results, runs, last_hit, jobs>>

\* _train_all_models lines 308-313 around _train_single_model for candidate
\* i + 1. outcome "ok": the row is created, the artifact attached and its size
\* recorded, and the model joins trained_models; "shap_failed": the same, with
\* the SHAP computation failing on the way (shap_values is the empty dict);
\* in both, and in "raise_late", pipeline.fit (line 333) has completed, and
\* with it one more fit of self.preprocessor, the pipeline's first step;
\* "raise_early": a statement before TrainedModel.objects.create raises;
\* "raise_late": one after it does. An exception is logged and the loop
\* continues.
TrainSingleModel(j, outcome, metric) ==
    LET c    == runner[j].i + 1
        name == CandidateName(jobs[j].task_type, c)
        id   == Len(models) + 1
        fitted == outcome \in {"ok", "shap_failed"}
    IN
    /\ runner[j].pc = "fit"
    /\ models' = CASE fitted ->
                        Append(models, [NewModel(j, name, metric) EXCEPT
                                            !.model_size = 1,
                                            !.shap_values = compute_shap_values(outcome = "ok")])
                   [] outcome = "raise_late" ->
                        Append(models, NewModel(j, name, metric))
                   [] outcome = "raise_early" -> models
    /\ runner' = [runner EXCEPT
                    ![j].i = c,
                    ![j].trained_models = IF fitted THEN Append(@, id) ELSE @,
                    ![j].shap_failed = IF outcome = "shap_failed" THEN @ \cup {c} ELSE @,
                    ![j].preprocessor_fits = IF outcome = "raise_early" THEN @ ELSE @ + 1,
                    ![j].pc = IF c = NumCandidates THEN "trained" ELSE "candidates"]
    /\ UNCHANGED <<extVars, content, file_hash, eda_results, runs, last_hit, jobs>>

\* _train_all_models lines 315-318 and train line 149: no trained model raises
\* TrainingError; otherwise the 'Selecting best model' checkpoint.
FinishTrainAll(j) ==
    /\ runner[j].pc = "trained"
    /\ IF runner[j].trained_models = <<>>
       THEN TrainFail(j, "All models failed to train", 0)
       ELSE /\ jobs' = [jobs EXCEPT ![j] =
                           _update_status(@, "running", "Selecting best model", 90)]
            /\ runner' = [runner EXCEPT ![j].pc = "select"]
    /\ UNCHANGED <<extVars, content, file_hash, eda_results, runs, last_hit, models>>

\* train line 150: _select_best_model marks the best model and saves it; or
\* it raises.
SelectBestModel(j, ok) ==
    LET best == _select_best_model(models, runner[j].trained_models, jobs[j].task_type)
    IN
    /\ runner[j].pc = "select"
    /\ IF ok
       THEN /\ models' = [models EXCEPT ![best].is_best = TRUE]
            /\ runner' = [runner EXCEPT ![j].pc = "complete", ![j].best = best]
            /\ UNCHANGED jobs
       ELSE /\ TrainFail(j, "select_error", 0)
            /\ UNCHANGED models
    /\ UNCHANGED <<extVars, content, file_hash, eda_results, runs, last_hit>>

\* train line 153: _update_status(COMPLETED, 'Complete', 100) saves the job.
Complete(j) ==
    /\ runner[j].pc = "complete"
    /\ jobs' = [jobs EXCEPT ![j] = _update_status(@, "completed", "Complete", 100)]
    /\ runner' = [runner EXCEPT ![j].pc = "final_save"]
    /\ UNCHANGED <<extVars, content, file_hash, eda_results, runs, last_hit, models>>

\* train lines 154-159: best_model and completed_at are set and the job is
\* saved; or that save raises, with best_model already set in memory.
FinalSave(j, ok) ==
    /\ runner[j].pc = "final_save"
    /\ IF ok
       THEN /\ jobs' = [jobs EXCEPT ![j].best_model = runner[j].best]
            /\ runner' = [runner EXCEPT ![j].pc = "done"]
       ELSE TrainFail(j, "save_error", runner[j].best)
    /\ UNCHANGED <<extVars, content, file_hash, eda_results, runs, last_hit, models>>

\* str(TrainingError(detail=f'Training failed: {str(e)}'))
TrainingErrorText(msg) == "Training failed: " \o msg

\* train_models_task, except Exception: the job is read again and saved with
\* status ERROR and the text of the exception the task caught.
TrainTaskExcept(j) ==
    /\ runner[j].pc = "task_except"
    /\ jobs' = [jobs EXCEPT ![j].status = "error",
                            ![j].error_message = TrainingErrorText(runner[j].exc)]
    /\ runner' = [runner EXCEPT ![j].pc = "done", ![j].raised = ""]
    /\ UNCHANGED <<extVars, content, file_hash, eda_results, runs, last_hit, models>>

\* ------------------------------------------------- EDAResult.save, in steps

Savers == 1..NumSavers

\* A creator that is not inside save().
IdleSave == [pc |-> "idle", dataset |-> 0, version |-> 0, raised |-> ""]

\* A table without the unique_together constraint.
UniqueTogetherOff(rows, d, v) == TRUE

\* Meta.unique_together = ['dataset', 'version']: the insert of (d, v) is
\* accepted only when no row of the table has that pair.
UniqueTogether(rows, d, v) ==
    \A i \in 1..Len(rows) : ~(rows[i].dataset = d /\ rows[i].version = v)

\* EDAResult.save lines 142-150 for a new row of dataset d: the latest version
\* of the dataset is read and the new version is set in memory.
SaveRead(s, d) ==
    /\ saves[s].pc = "idle"
    /\ Len(eda_results) < MaxEda
    /\ saves' = [saves EXCEPT ![s] = [pc |-> "insert", dataset |-> d,
                                      version |-> NextVersion(eda_results, d),
                                      raised |-> ""]]
    /\ UNCHANGED <<edaVars, mlVars, call, lookup, pred_jobs, pred_runs, pred_call, db>>

\* EDAResult.save line 152, super().save(): the INSERT; the database rejects
\* a (dataset, version) pair that is already there with IntegrityError.
SaveInsert(s) ==
    /\ saves[s].pc = "insert"
    /\ IF UniqueTogether(eda_results, saves[s].dataset, saves[s].version)
       THEN /\ Len(eda_results) < MaxEda
            /\ eda_results' = Append(eda_results,
                   [NewEdaResult(eda_results, saves[s].dataset, "running")
                        EXCEPT !.version = saves[s].version])
            /\ saves' = [saves EXCEPT ![s].pc = "idle"]
       ELSE /\ saves' = [saves EXCEPT ![s].pc = "idle",
                                      ![s].raised = "IntegrityError"]
            /\ UNCHANGED eda_results
    /\ UNCHANGED <<content, file_hash, runs, last_hit, mlVars, call, lookup, pred_jobs, pred_runs,
                   pred_call, db>>

\* ------------------------------------------- _get_cached_result on any table

\* EDAResult.Status
EdaStatuses == {"pending", "running", "completed", "error"}

\* The rows a table can hold as far as the lookup reads them: any status with
\* any cache key (rows written through the ORM, as the tests do).
LookupRows ==
    {[NewEdaResult(<<>>, 1, st) EXCEPT !.cache_key = k] :
        st \in EdaStatuses, k \in Hashes \cup {""}}

\* No lookup made yet.
NoLookup == [key |-> "", found |-> 0]

\* One call of EDAAnalyzerService._get_cached_result(cache_key).
CacheLookup(key) ==
    /\ lookup' = [key |-> key, found |-> _get_cached_result(eda_results, key)]
    /\ UNCHANGED <<edaVars, mlVars, call, saves, pred_jobs, pred_runs, pred_call, db>>

\* run_eda_task lines 33-48 when analyze raises before its own try block
\* (lines 66-92: compute_file_hash on an unreadable file, or one of the
\* saves): the task has saved RUNNING, and the exception goes to the task's
\* handler without passing through the except block of analyze.
RunEdaTaskFail(i) ==
    /\ runs[i].pc = "queued"
    /\ eda_results' = [eda_results EXCEPT ![i].status = TaskStartStatus]
    /\ runs' = [runs EXCEPT ![i].pc = "task_except", ![i].exc = "OSError"]
    /\ last_hit' = NoHit
    /\ UNCHANGED <<extVars, content, file_hash, jobs, models, runner>>

\* Celery raises SoftTimeLimitExceeded (an Exception) in the task 240 s after
\* it started, in whatever statement of analyze is executing. caught_by
\* "analyze": a statement of the try block that is in no inner handler, so the
\* except block of analyze records the failure; "inner": a statement inside
\* _cramers_v, the association loops or _generate_ai_insights, whose own
\* `except Exception` swallows the exception, and the analysis goes on.
SoftTimeLimit(i, caught_by) ==
    /\ runs[i].pc = "computing"
    /\ runs[i].run_async
    /\ runs[i].limit = ""
    /\ IF caught_by = "analyze"
       THEN /\ eda_results' = [eda_results EXCEPT
                                  ![i] = AnalyzeErrorRow(@, "SoftTimeLimitExceeded")]
            /\ runs' = [runs EXCEPT ![i].pc = "task_except",
                                    ![i].exc = "SoftTimeLimitExceeded",
                                    ![i].raised = "EDAError",
                                    ![i].limit = "soft"]
       ELSE /\ runs' = [runs EXCEPT ![i].limit = "soft"]
            /\ UNCHANGED eda_results
    /\ last_hit' = NoHit
    /\ UNCHANGED <<extVars, content, file_hash, jobs, models, runner>>

\* The hard limit, 300 s after the start: the worker process running the task
\* is killed; no handler of the task or of analyze runs.
HardTimeLimit(i) ==
    /\ runs[i].pc = "computing"
    /\ runs[i].limit = "soft"
    /\ runs' = [runs EXCEPT ![i].pc = "killed", ![i].limit = "hard"]
    /\ last_hit' = NoHit
    /\ UNCHANGED <<extVars, content, file_hash, eda_results, jobs, models, runner>>

\* ------------------------------------------------------------ predictions

PredStatuses == {"pending", "running", "completed", "error"}

\* What can go wrong in a prediction: load_model or pipeline.predict raise
\* PredictionError, validate_input raises ValidationError, anything else
\* (reading the input, a save) raises some other exception.
PredictFailures == {"load_error", "validation_error", "predict_error", "other_error"}

PredictionErrors == {"load_error", "predict_error"}

\* PredictionJob.objects.create: status defaults to PENDING.
NewPredictionJob(input_type) ==
    [status |-> "pending", error_message |-> "", input_type |-> input_type]

NewPredRun(pc, mode) ==
    [pc |-> pc, mode |-> mode, exc |-> "", raised |-> "", executions |-> 0]

\* PredictView.post lines 123-130: the job row of an inline JSON prediction.
PredictCreate ==
    /\ Len(pred_jobs) < MaxPredJobs
    /\ pred_jobs' = Append(pred_jobs, NewPredictionJob("json"))
    /\ pred_runs' = Append(pred_runs, NewPredRun("predict", "inline"))
    /\ UNCHANGED <<edaVars, mlVars, call, saves, lookup, pred_call, db>>

\* PredictView.post lines 132-174: the prediction itself. Success saves
\* COMPLETED; a PredictionError is re-raised with the row untouched; any other
\* exception saves ERROR with its text and raises PredictionError.
PredictRun(j, outcome) ==
    /\ pred_runs[j].pc = "predict"
    /\ pred_jobs' = [pred_jobs EXCEPT ![j] =
                        CASE outcome = "ok" -> [@ EXCEPT !.status = "completed"]
                          [] outcome \in PredictionErrors -> @
                          [] OTHER -> [@ EXCEPT !.status = "error",
                                                !.error_message = outcome]]
    /\ pred_runs' = [pred_runs EXCEPT
                        ![j].pc = "done",
                        ![j].exc = IF outcome = "ok" THEN "" ELSE outcome,
                        ![j].raised = IF outcome = "ok" THEN "" ELSE "PredictionError"]
    /\ UNCHANGED <<edaVars, mlVars, call, saves, lookup, pred_call, db>>

\* BatchPredictView.post lines 213-232: the job row of a batch prediction, and
\* the dispatch of the task when async=true.
BatchPredictCreate(run_async) ==
    /\ Len(pred_jobs) < MaxPredJobs
    /\ pred_jobs' = Append(pred_jobs, NewPredictionJob("file"))
    /\ pred_runs' = Append(pred_runs,
                           NewPredRun(IF run_async THEN "queued" ELSE "run_job",
                                      IF run_async THEN "async" ELSE "sync"))
    /\ UNCHANGED <<edaVars, mlVars, call, saves, lookup, pred_call, db>>

\* run_batch_prediction_task lines 26-37: the worker takes the task and saves
\* RUNNING before calling run_prediction_job.
RunBatchPredictionTask(j) ==
    /\ pred_runs[j].pc = "queued"
    /\ pred_jobs' = [pred_jobs EXCEPT ![j].status = "running"]
    /\ pred_runs' = [pred_runs EXCEPT ![j].pc = "run_job", ![j].executions = @ + 1]
    /\ UNCHANGED <<edaVars, mlVars, call, saves, lookup, pred_call, db>>

\* run_prediction_job lines 198-199.
RunPredictionJobStart(j) ==
    /\ pred_runs[j].pc = "run_job"
    /\ pred_jobs' = [pred_jobs EXCEPT ![j].status = "running"]
    /\ pred_runs' = [pred_runs EXCEPT ![j].pc = "job_running"]
    /\ UNCHANGED <<edaVars, mlVars, call, saves, lookup, pred_call, db>>

\* The except block of run_prediction_job, lines 232-238.
PredictionJobError(job, msg) == [job EXCEPT !.status = "error", !.error_message = msg]

\* run_prediction_job lines 201-238 and, for a synchronous batch, the except
\* clauses of BatchPredictView.post lines 245-255 (which save ERROR and the
\* same text once more when the exception is not a PredictionError).
RunPredictionJobEnd(j, outcome) ==
    /\ pred_runs[j].pc = "job_running"
    /\ pred_jobs' = [pred_jobs EXCEPT ![j] =
                        IF outcome = "ok" THEN [@ EXCEPT !.status = "completed"]
                                          ELSE PredictionJobError(@, outcome)]
    /\ pred_runs' = [pred_runs EXCEPT
                        ![j].pc = IF outcome # "ok" /\ pred_runs[j].mode = "async"
                                  THEN "task_except" ELSE "done",
                        ![j].exc = IF outcome = "ok" THEN "" ELSE outcome,
                        ![j].raised = CASE outcome = "ok" -> ""
                                        [] pred_runs[j].mode = "async" -> outcome
                                        [] OTHER -> "PredictionError"]
    /\ UNCHANGED <<edaVars, mlVars, call, saves, lookup, pred_call, db>>

\* run_batch_prediction_task lines 50-69: the handler re-reads the row, saves
\* ERROR and str(e), and returns a dict (the task does not raise or retry).
BatchTaskExcept(j) ==
    /\ pred_runs[j].pc = "task_except"
    /\ pred_jobs' = [pred_jobs EXCEPT ![j].status = "error",
                                      ![j].error_message = pred_runs[j].exc]
    /\ pred_runs' = [pred_runs EXCEPT ![j].pc = "done", ![j].raised = ""]
    /\ UNCHANGED <<edaVars, mlVars, call, saves, lookup, pred_call, db>>

\* ------------------------------------------- PredictionService.predict

Columns == {"a", "b", "c"}

\* Prediction records: each one is the set of its keys.
RecordLists == UNION {[1..n -> SUBSET Columns] : n \in 0..MaxRecords}

\* pd.DataFrame(data).columns: the union of the keys of the records.
DataFrameColumns(data) == UNION {data[i] : i \in 1..Len(data)}

NoError == [raised |-> "", code |-> "", missing |-> {}]

\* A validation that checks the first record only.
ValidateFirstRecord(feature_columns, data) ==
    IF data = <<>>
    THEN [raised |-> "ValidationError", code |-> "EMPTY_INPUT", missing |-> {}]
    ELSE IF feature_columns \ data[1] # {}
    THEN [raised |-> "ValidationError", code |-> "MISSING_COLUMNS",
          missing |-> feature_columns \ data[1]]
    ELSE NoError

\* PredictionService.validate_input lines 72-99: what it raises.
validate_input(feature_columns, data) ==
    LET missing_cols == feature_columns \ DataFrameColumns(data)
    IN
    IF data = <<>>
    THEN [raised |-> "ValidationError", code |-> "EMPTY_INPUT", missing |-> {}]
    ELSE IF missing_cols # {}
    THEN [raised |-> "ValidationError", code |-> "MISSING_COLUMNS",
          missing |-> missing_cols]
    ELSE NoError

NewPredCall(feature_columns, data) ==
    [feature_columns |-> feature_columns, data |-> data, pc |-> "load",
     error |-> NoError, predict_called |-> FALSE]

\* predict lines 126-127 with load_model lines 41-57: the pipeline is loaded,
\* or PredictionError is raised.
LoadModel(ok) ==
    /\ pred_call.pc = "load"
    /\ pred_call' = IF ok THEN [pred_call EXCEPT !.pc = "validate"]
                          ELSE [pred_call EXCEPT
                                   !.pc = "done",
                                   !.error = [NoError EXCEPT !.raised = "PredictionError"]]
    /\ UNCHANGED <<edaVars, mlVars, call, saves, lookup, pred_jobs, pred_runs, db>>

\* predict line 130.
ValidateInput ==
    LET e == validate_input(pred_call.feature_columns, pred_call.data)
    IN
    /\ pred_call.pc = "validate"
    /\ pred_call' = [pred_call EXCEPT
                        !.pc = IF e.raised = "" THEN "predict" ELSE "done",
                        !.error = e]
    /\ UNCHANGED <<edaVars, mlVars, call, saves, lookup, pred_jobs, pred_runs, db>>

\* predict lines 133-141: pipeline.predict is invoked and returns or raises.
PipelinePredict(ok) ==
    /\ pred_call.pc = "predict"
    /\ pred_call' = [pred_call EXCEPT
                        !.pc = "done",
                        !.predict_called = TRUE,
                        !.error = IF ok THEN NoError
                                  ELSE [NoError EXCEPT !.raised = "PredictionError"]]
    /\ UNCHANGED <<edaVars, mlVars, call, saves, lookup, pred_jobs, pred_runs, db>>

\* ---------------------------------------------------- ownership and deletion

Rows == 1..MaxRows

\* Ids are never reused: a dataset, job or model slot is "free", then "live",
\* then "deleted". An eda_results or prediction_jobs slot holds the id of the
\* row's parent, or 0 when there is no row.
NoJob == [state |-> "free", dataset |-> 0, best_model |-> 0]

NoTrainedModel == [state |-> "free", training_job |-> 0, dataset |-> 0]

EmptyDb ==
    [datasets |-> [d \in Datasets |-> "free"],
     eda      |-> [r \in Rows |-> 0],
     jobs     |-> [r \in Rows |-> NoJob],
     models   |-> [r \in Rows |-> NoTrainedModel],
     preds    |-> [r \in Rows |-> 0]]

\* The slot a new row takes.
FirstFree(free) == CHOOSE r \in free : \A q \in free : r <= q

\* A foreign key that ignores the deletion of its target.
DoNothing(table, gone) == table

\* on_delete=models.CASCADE on the foreign key of a table without children:
\* the rows whose parent is in gone are deleted with it.
Cascade(table, gone) ==
    [r \in DOMAIN table |-> IF table[r] \in gone THEN 0 ELSE table[r]]

\* DatasetViewSet.create: Dataset.objects.create.
CreateDataset ==
    LET free == {d \in Datasets : db.datasets[d] = "free"}
    IN
    /\ free # {}
    /\ db' = [db EXCEPT !.datasets[FirstFree(free)] = "live"]
    /\ UNCHANGED <<edaVars, mlVars, call, saves, lookup, pred_jobs, pred_runs, pred_call>>

\* EDAResult.objects.create(dataset=...): the foreign key needs a live dataset.
CreateEdaResult(d) ==
    LET free == {r \in Rows : db.eda[r] = 0}
    IN
    /\ db.datasets[d] = "live"
    /\ free # {}
    /\ db' = [db EXCEPT !.eda[FirstFree(free)] = d]
    /\ UNCHANGED <<edaVars, mlVars, call, saves, lookup, pred_jobs, pred_runs, pred_call>>

\* TriggerTrainingView.post: TrainingJob.objects.create(dataset=...).
CreateTrainingJob(d) ==
    LET free == {r \in Rows : db.jobs[r].state = "free"}
    IN
    /\ db.datasets[d] = "live"
    /\ free # {}
    /\ db' = [db EXCEPT !.jobs[FirstFree(free)] =
                            [state |-> "live", dataset |-> d, best_model |-> 0]]
    /\ UNCHANGED <<edaVars, mlVars, call, saves, lookup, pred_jobs, pred_runs, pred_call>>

\* _train_single_model: TrainedModel.objects.create(training_job=job,
\* dataset=job.dataset, ...); both foreign keys need live rows.
CreateTrainedModel(j) ==
    LET free == {r \in Rows : db.models[r].state = "free"}
    IN
    /\ db.jobs[j].state = "live"
    /\ db.datasets[db.jobs[j].dataset] = "live"
    /\ free # {}
    /\ db' = [db EXCEPT !.models[FirstFree(free)] =
                            [state |-> "live", training_job |-> j,
                             dataset |-> db.jobs[j].dataset]]
    /\ UNCHANGED <<edaVars, mlVars, call, saves, lookup, pred_jobs, pred_runs, pred_call>>

\* train: job.best_model = best_model; job.save().
SetBestModel(j, m) ==
    /\ db.jobs[j].state = "live"
    /\ db.models[m].state = "live"
    /\ db.models[m].training_job = j
    /\ db.jobs[j].best_model # m
    /\ db' = [db EXCEPT !.jobs[j].best_model = m]
    /\ UNCHANGED <<edaVars, mlVars, call, saves, lookup, pred_jobs, pred_runs, pred_call>>

\* PredictView.post / BatchPredictView.post: PredictionJob.objects.create(model=...).
CreatePredictionJob(m) ==
    LET free == {r \in Rows : db.preds[r] = 0}
    IN
    /\ db.models[m].state = "live"
    /\ free # {}
    /\ db' = [db EXCEPT !.preds[FirstFree(free)] = m]
    /\ UNCHANGED <<edaVars, mlVars, call, saves, lookup, pred_jobs, pred_runs, pred_call>>

\* TrainedModelViewSet.destroy: model.delete(). PredictionJob.model cascades
\* and TrainingJob.best_model is SET_NULL.
DeleteTrainedModel(m) ==
    /\ db.models[m].state = "live"
    /\ db' = [db EXCEPT
                !.models[m] = [NoTrainedModel EXCEPT !.state = "deleted"],
                !.preds = Cascade(@, {m}),
                !.jobs = [j \in Rows |-> IF @[j].best_model = m
                                         THEN [@[j] EXCEPT !.best_model = 0]
                                         ELSE @[j]]]
    /\ UNCHANGED <<edaVars, mlVars, call, saves, lookup, pred_jobs, pred_runs, pred_call>>

\* DatasetViewSet.destroy: dataset.delete(). Django collects the rows that
\* reach the dataset through CASCADE keys: its EDAResults and TrainingJobs,
\* the TrainedModels of the dataset or of those jobs, their PredictionJobs.
DeleteDataset(d) ==
    LET gone_jobs   == {j \in Rows : db.jobs[j].state = "live" /\ db.jobs[j].dataset = d}
        gone_models == {m \in Rows : /\ db.models[m].state = "live"
                                     /\ \/ db.models[m].dataset = d
                                        \/ db.models[m].training_job \in gone_jobs}
    IN
    /\ db.datasets[d] = "live"
    /\ db' = [datasets |-> [db.datasets EXCEPT ![d] = "deleted"],
              eda      |-> Cascade(db.eda, {d}),
              jobs     |-> [j \in Rows |-> IF j \in gone_jobs
                                           THEN [NoJob EXCEPT !.state = "deleted"]
                                           ELSE db.jobs[j]],
              models   |-> [m \in Rows |-> IF m \in gone_models
                                           THEN [NoTrainedModel EXCEPT !.state = "deleted"]
                                           ELSE db.models[m]],
              preds    |-> Cascade(db.preds, gone_models)]
    /\ UNCHANGED <<edaVars, mlVars, call, saves, lookup, pred_jobs, pred_runs, pred_call>>

\* --------------------------------------- pure functions of trainer, evaluator

NoCall == [fn |-> "", pc |-> "done"]

\* The dtypes a target column read by pandas can have.
Dtypes == {"object", "category", "bool", "int64", "float64"}

\* A target column: `distinct` different non-null values, each occurring
\* `each` times, and `nan` nulls. A column read from a file without rows has
\* dtype object, so a numeric column has at least one row.
TargetSeries ==
    {t \in [dtype : Dtypes, distinct : 0..MaxDistinct, each : 1..MaxEach, nan : 0..MaxNan] :
        t.dtype \in {"int64", "float64"} => t.distinct * t.each + t.nan >= 1}

\* Series.nunique(): nulls are not counted.
nunique(t) == t.distinct

\* len(series).
SeriesLen(t) == t.distinct * t.each + t.nan

\* A detector without the rule for two distinct values.
DetectWithoutBinaryRule(t) ==
    IF t.dtype \in {"object", "category", "bool"} THEN "classification"
    ELSE IF SeriesLen(t) = 0 THEN "ZeroDivisionError"
    ELSE IF 20 * nunique(t) <= SeriesLen(t) /\ nunique(t) <= 20 THEN "classification"
    ELSE "regression"

\* ModelTrainerService._detect_task_type. unique_ratio <= 0.05 is the float
\* comparison n_unique / len <= 0.05: the quotient is correctly rounded, so
\* it holds exactly when 20 * n_unique <= len.
_detect_task_type(t) ==
    IF t.dtype \in {"object", "category", "bool"} THEN "classification"
    ELSE IF nunique(t) = 2 THEN "classification"
    ELSE IF SeriesLen(t) = 0 THEN "ZeroDivisionError"
    ELSE IF 20 * nunique(t) <= SeriesLen(t) /\ nunique(t) <= 20 THEN "classification"
    ELSE "regression"

\* _prepare_features line 217: the call of the detector on the target column.
DetectTaskType ==
    /\ call.fn = "_detect_task_type"
    /\ call.pc = "start"
    /\ call' = [call EXCEPT !.pc = "done", !.result = _detect_task_type(call.target_series)]
    /\ UNCHANGED <<edaVars, mlVars, saves, lookup, pred_jobs, pred_runs, pred_call, db>>

\* y_full as the number of rows of each class (for regression only the
\* total matters).
ClassCounts == UNION {[1..n -> 1..MaxCount] : n \in 1..MaxClasses}

RECURSIVE SumSeq(_)
SumSeq(q) == IF q = <<>> THEN 0 ELSE q[1] + SumSeq(Tail(q))

\* y_full.value_counts().min()
MinClassCount(counts) ==
    CHOOSE c \in {counts[i] : i \in 1..Len(counts)} :
        \A i \in 1..Len(counts) : c <= counts[i]

Min2(a, b) == IF a < b THEN a ELSE b

Max2(a, b) == IF a > b THEN a ELSE b

\* The fold count of line 355 taken from the total number of rows.
FoldsByRows(task_type, counts) == Min2(5, Max2(2, SumSeq(counts) \div 5))

\* _train_single_model lines 351-357: n_folds.
n_folds(task_type, counts) ==
    IF task_type = "classification"
    THEN Min2(5, Max2(2, MinClassCount(counts)))
    ELSE Min2(5, Max2(2, SumSeq(counts) \div 5))

\* _train_single_model line 372: the n_splits of the fallback KFold.
kfold_splits(counts) == Min2(5, Max2(2, SumSeq(counts) \div 5))

\* _train_single_model lines 351-357.
FoldCount ==
    /\ call.fn = "cv"
    /\ call.pc = "start"
    /\ call' = [call EXCEPT !.pc = "cross_val",
                            !.n_folds = n_folds(call.task_type, call.counts)]
    /\ UNCHANGED <<edaVars, mlVars, saves, lookup, pred_jobs, pred_runs, pred_call, db>>

\* _train_single_model lines 360-378: cross_val_score with cv=n_folds, and
\* with the fallback KFold when that raises ValueError.
CrossValidate(ok) ==
    /\ call.fn = "cv"
    /\ call.pc = "cross_val"
    /\ call' = [call EXCEPT
                   !.pc = "done",
                   !.fallback = ~ok,
                   !.cv = IF ok THEN call.n_folds ELSE kfold_splits(call.counts)]
    /\ UNCHANGED <<edaVars, mlVars, saves, lookup, pred_jobs, pred_runs, pred_call, db>>

\* The model dicts given to compare_models: model n of a list has name n and
\* a key metric, NoMetric when the key is absent from its metrics.
ModelLists ==
    UNION {[1..n -> Metrics] : n \in 0..MaxModels}

\* compare_models lines 207-211: the sort key.
CompareKey(metric, task_type) ==
    IF metric # NoMetric THEN metric
    ELSE IF task_type = "classification" THEN 0 ELSE Infinity

\* q comes before r in the order of compare_models.
Before(q, r, task_type) ==
    IF task_type = "classification"
    THEN CompareKey(q.metric, task_type) > CompareKey(r.metric, task_type)
    ELSE CompareKey(q.metric, task_type) < CompareKey(r.metric, task_type)

\* Python's sorted(), a stable sort (also with reverse=True): m goes behind
\* every element that does not come after it.
RECURSIVE InsertStable(_, _, _)
InsertStable(sorted, m, task_type) ==
    IF sorted = <<>> THEN <<m>>
    ELSE IF Before(m, sorted[1], task_type)
    THEN <<m>> \o sorted
    ELSE <<sorted[1]>> \o InsertStable(Tail(sorted), m, task_type)

RECURSIVE SortedModels(_, _)
SortedModels(ms, task_type) ==
    IF ms = <<>> THEN <<>>
    ELSE InsertStable(SortedModels(SubSeq(ms, 1, Len(ms) - 1), task_type),
                      ms[Len(ms)], task_type)

\* A comparison that sorts both task types by ascending key.
CompareModelsAscending(ms, task_type) ==
    LET sorted_models == SortedModels(ms, "regression")
    IN [i \in 1..Len(sorted_models) |->
            [name |-> sorted_models[i].name, metric |-> sorted_models[i].metric,
             rank |-> i, is_best |-> (i = 1)]]

\* ModelEvaluatorService.compare_models: the list it returns.
compare_models(ms, task_type) ==
    LET sorted_models == SortedModels(ms, task_type)
    IN [i \in 1..Len(sorted_models) |->
            [name |-> sorted_models[i].name, metric |-> sorted_models[i].metric,
             rank |-> i, is_best |-> (i = 1)]]

\* One call of compare_models.
CompareModels ==
    /\ call.fn = "compare_models"
    /\ call.pc = "start"
    /\ call' = [call EXCEPT !.pc = "done",
                            !.result = compare_models(call.models, call.task_type)]
    /\ UNCHANGED <<edaVars, mlVars, saves, lookup, pred_jobs, pred_runs, pred_call, db>>

InitEda ==
    /\ content \in {c \in [Datasets -> Hashes] :
                        /\ c[1] = "h1"
                        /\ \A d, e \in Datasets : (d < e /\ c[d] = "h2") => c[e] = "h2"}
    /\ file_hash = [d \in Datasets |-> ""]
    /\ eda_results = <<>>
    /\ runs = <<>>
    /\ last_hit = NoHit

InitMl ==
    /\ jobs = <<>>
    /\ models = <<>>
    /\ runner = <<>>

InitExt ==
    /\ saves = [s \in Savers |-> IdleSave]
    /\ lookup = NoLookup
    /\ pred_jobs = <<>>
    /\ pred_runs = <<>>
    /\ pred_call = NewPredCall({}, <<>>)
    /\ db = EmptyDb
    /\ call = NoCall

Init == InitEda /\ InitMl /\ InitExt

\* The EDA service when no request asks for force_refresh.
NextEda ==
    \/ \E d \in Datasets : TriggerEDAAsync(d, FALSE)
    \/ \E d \in Datasets : TriggerEDASync(d, FALSE)
    \/ \E i \in 1..Len(eda_results) : RunEdaTask(i)
    \/ \E i \in 1..Len(eda_results), ai \in {"ok", "raises"} : AnalyzeComplete(i, ai)
    \/ \E i \in 1..Len(eda_results), msg \in EdaMsgs : AnalyzeFail(i, msg)
    \/ \E i \in 1..Len(eda_results) : EdaTaskExcept(i)

SpecEda == Init /\ [][NextEda]_vars

\* The EDA service with force_refresh requests as well.
NextEdaForce ==
    \/ NextEda
    \/ \E d \in Datasets : TriggerEDAAsync(d, TRUE)
    \/ \E d \in Datasets : TriggerEDASync(d, TRUE)

SpecEdaForce == Init /\ [][NextEdaForce]_vars

\* The EDA service with task failures outside the try block of analyze.
NextEdaTask ==
    \/ NextEda
    \/ \E i \in 1..Len(eda_results) : RunEdaTaskFail(i)

SpecEdaTask == Init /\ [][NextEdaTask]_vars

\* The EDA service with the time limits of run_eda_task.
NextEdaLimit ==
    \/ NextEda
    \/ \E i \in 1..Len(eda_results), caught_by \in {"analyze", "inner"} :
            SoftTimeLimit(i, caught_by)
    \/ \E i \in 1..Len(eda_results) : HardTimeLimit(i)

SpecEdaLimit == Init /\ [][NextEdaLimit]_vars

\* The EDA service with every outcome of the narrative step.
AiOutcomes == {"ok", "call_fails", "raises", "unavailable"}

NextEdaAi ==
    \/ NextEda
    \/ \E i \in 1..Len(eda_results), ai \in AiOutcomes : AnalyzeComplete(i, ai)

SpecEdaAi == Init /\ [][NextEdaAi]_vars

\* Concurrent creations of EDAResult rows, each save() in its two steps.
NextVersionRace ==
    \/ \E s \in Savers, d \in Datasets : SaveRead(s, d)
    \/ \E s \in Savers : SaveInsert(s)

SpecVersion == Init /\ [][NextVersionRace]_vars

\* The cache lookup applied to every table of at most MaxEda rows.
InitLookup ==
    /\ content = [d \in Datasets |-> "h1"]
    /\ file_hash = [d \in Datasets |-> ""]
    /\ eda_results \in UNION {[1..n -> LookupRows] : n \in 0..MaxEda}
    /\ runs = <<>>
    /\ last_hit = NoHit
    /\ InitMl
    /\ InitExt

NextLookup == \E key \in Hashes : CacheLookup(key)

SpecLookup == InitLookup /\ [][NextLookup]_vars

Outcomes == {"ok", "raise_early", "raise_late"}

NextMl ==
    \/ \E task_type \in TaskTypes, run_async \in BOOLEAN :
            TriggerTraining(task_type, run_async)
    \/ \E j \in 1..Len(jobs) : TrainModelsTask(j)
    \/ \E j \in 1..Len(jobs) : TrainStart(j)
    \/ \E j \in 1..Len(jobs), ok \in BOOLEAN : LoadData(j, ok)
    \/ \E j \in 1..Len(jobs), ok \in BOOLEAN : SplitData(j, ok)
    \/ \E j \in 1..Len(jobs), ok \in BOOLEAN : CreatePreprocessor(j, ok)
    \/ \E j \in 1..Len(jobs) : BeginCandidate(j)
    \/ \E j \in 1..Len(jobs), outcome \in Outcomes, metric \in Metrics :
            TrainSingleModel(j, outcome, metric)
    \/ \E j \in 1..Len(jobs) : FinishTrainAll(j)
    \/ \E j \in 1..Len(jobs), ok \in BOOLEAN : SelectBestModel(j, ok)
    \/ \E j \in 1..Len(jobs) : Complete(j)
    \/ \E j \in 1..Len(jobs), ok \in BOOLEAN : FinalSave(j, ok)
    \/ \E j \in 1..Len(jobs) : TrainTaskExcept(j)

SpecMl == Init /\ [][NextMl]_vars

\* Prediction jobs: inline, synchronous batch and asynchronous batch.
NextPred ==
    \/ PredictCreate
    \/ \E j \in 1..Len(pred_jobs), outcome \in {"ok"} \cup PredictFailures :
            PredictRun(j, outcome)
    \/ \E run_async \in BOOLEAN : BatchPredictCreate(run_async)
    \/ \E j \in 1..Len(pred_jobs) : RunBatchPredictionTask(j)
    \/ \E j \in 1..Len(pred_jobs) : RunPredictionJobStart(j)
    \/ \E j \in 1..Len(pred_jobs), outcome \in {"ok"} \cup PredictFailures :
            RunPredictionJobEnd(j, outcome)
    \/ \E j \in 1..Len(pred_jobs) : BatchTaskExcept(j)

SpecPred == Init /\ [][NextPred]_vars

\* PredictionService.predict on every feature-column set and every list of
\* at most MaxRecords records.
InitValidate ==
    /\ InitEda
    /\ InitMl
    /\ saves = [s \in Savers |-> IdleSave]
    /\ lookup = NoLookup
    /\ pred_jobs = <<>>
    /\ pred_runs = <<>>
    /\ pred_call \in {NewPredCall(f, data) : f \in SUBSET Columns, data \in RecordLists}
    /\ db = EmptyDb
    /\ call = NoCall

NextValidate ==
    \/ \E ok \in BOOLEAN : LoadModel(ok)
    \/ ValidateInput
    \/ \E ok \in BOOLEAN : PipelinePredict(ok)

SpecValidate == InitValidate /\ [][NextValidate]_vars

\* Creations and deletions of rows of the five tables.
NextDelete ==
    \/ CreateDataset
    \/ \E d \in Datasets : CreateEdaResult(d)
    \/ \E d \in Datasets : CreateTrainingJob(d)
    \/ \E j \in Rows : CreateTrainedModel(j)
    \/ \E j \in Rows, m \in Rows : SetBestModel(j, m)
    \/ \E m \in Rows : CreatePredictionJob(m)
    \/ \E m \in Rows : DeleteTrainedModel(m)
    \/ \E d \in Datasets : DeleteDataset(d)

SpecDelete == Init /\ [][NextDelete]_vars

\* The task-type detector on every target column of TargetSeries.
InitDetect ==
    /\ InitEda
    /\ InitMl
    /\ saves = [s \in Savers |-> IdleSave]
    /\ lookup = NoLookup
    /\ pred_jobs = <<>>
    /\ pred_runs = <<>>
    /\ pred_call = NewPredCall({}, <<>>)
    /\ db = EmptyDb
    /\ call \in {[fn |-> "_detect_task_type", pc |-> "start", target_series |-> t,
                  result |-> ""] : t \in TargetSeries}

NextDetect == DetectTaskType

SpecDetect == InitDetect /\ [][NextDetect]_vars

\* The fold count on every y_full of ClassCounts, for both task types.
InitFolds ==
    /\ InitEda
    /\ InitMl
    /\ saves = [s \in Savers |-> IdleSave]
    /\ lookup = NoLookup
    /\ pred_jobs = <<>>
    /\ pred_runs = <<>>
    /\ pred_call = NewPredCall({}, <<>>)
    /\ db = EmptyDb
    /\ call \in {[fn |-> "cv", pc |-> "start", task_type |-> tt, counts |-> c,
                  n_folds |-> 0, fallback |-> FALSE, cv |-> 0] :
                        tt \in TaskTypes, c \in ClassCounts}

NextFolds ==
    \/ FoldCount
    \/ \E ok \in BOOLEAN : CrossValidate(ok)

SpecFolds == InitFolds /\ [][NextFolds]_vars

\* compare_models on every list of at most MaxModels models.
InitCompare ==
    /\ InitEda
    /\ InitMl
    /\ saves = [s \in Savers |-> IdleSave]
    /\ lookup = NoLookup
    /\ pred_jobs = <<>>
    /\ pred_runs = <<>>
    /\ pred_call = NewPredCall({}, <<>>)
    /\ db = EmptyDb
    /\ call \in {[fn |-> "compare_models", pc |-> "start", task_type |-> tt,
                  models |-> [i \in 1..Len(ml) |-> [name |-> i, metric |-> ml[i]]],
                  result |-> <<>>] : tt \in TaskTypes, ml \in ModelLists}

NextCompare == CompareModels

SpecCompare == InitCompare /\ [][NextCompare]_vars

\* Training with SHAP computations that can fail.
NextMlShap ==
    \/ NextMl
    \/ \E j \in 1..Len(jobs), metric \in Metrics :
            TrainSingleModel(j, "shap_failed", metric)

SpecMlShap == Init /\ [][NextMlShap]_vars


\* ---------------------------------------------------------------- claims

JobIds == 1..Len(jobs)

\* The COMPLETED rows of a table that carry a cache key.
CompletedWithKey(rows, key) ==
    {i \in 1..Len(rows) : rows[i].status = "completed" /\ rows[i].cache_key = key}

\* A synchronous request without force_refresh for dataset d enters analyze in
\* this step: it gets a cached row back, or it starts a computation on a row
\* of its own.
SyncCallUnforced(d) ==
    \/ /\ last_hit' # NoHit
       /\ last_hit' # last_hit
       /\ last_hit'.dataset = d
    \/ /\ Len(eda_results') = Len(eda_results) + 1
       /\ eda_results'[Len(eda_results')].dataset = d
       /\ eda_results'[Len(eda_results')].status = "running"
       /\ ~runs'[Len(eda_results')].force_refresh

\* The task of row i enters analyze in this step (always without force_refresh).
TaskCall(i) == runs[i].pc = "queued" /\ runs'[i].pc # "queued"

\* Row r is what a cache hit on key has to return, and the step was a pure
\* read of the cache.
IsCacheHit(r, key) ==
    /\ r \in CompletedWithKey(eda_results, key)
    /\ \A k \in CompletedWithKey(eda_results, key) : k <= r
    /\ Len(eda_results') = Len(eda_results)
    /\ eda_results'[r] = eda_results[r]
    /\ \A k \in CompletedWithKey(eda_results', key) : k <= r

\* C1: when a COMPLETED EDAResult with the dataset's content hash exists, a
\* call of analyze with force_refresh=false returns such a row (the newest
\* one), creates no row, leaves the returned row as it was, and the same call
\* made again from the resulting state gets the same id.
C1_CacheHitReturnsCached ==
    [][/\ \A d \in Datasets :
             (SyncCallUnforced(d) /\ CompletedWithKey(eda_results, content[d]) # {})
             => /\ last_hit'.dataset = d
                /\ IsCacheHit(last_hit'.returned, content[d])
       /\ \A i \in 1..Len(eda_results) :
             LET key == content[eda_results[i].dataset] IN
             (TaskCall(i) /\ CompletedWithKey(eda_results, key) # {})
             => /\ runs'[i].pc = "done"
                /\ IsCacheHit(runs'[i].returned, key)]_vars

C1_Witness ==
    /\ last_hit # NoHit
    /\ last_hit.returned \in 1..Len(eda_results)
    /\ eda_results[last_hit.returned].status = "completed"
    /\ eda_results[last_hit.returned].cache_key = content[last_hit.dataset]
    /\ eda_results[last_hit.returned].dataset # last_hit.dataset

\* C2: every finished EDA request made with force_refresh=true has computed a
\* row of its own (not an earlier COMPLETED one), and that row has reached
\* COMPLETED (populated) or ERROR, whether the request ran synchronously or
\* as a task.
C2_ForceRefreshComputesNew ==
    \A i \in 1..Len(eda_results) :
        (runs[i].pc = "done" /\ runs[i].force_refresh)
        => \/ /\ eda_results[i].status = "completed"
              /\ eda_results[i].populated
              /\ runs[i].returned = i
           \/ /\ eda_results[i].status = "error"
              /\ runs[i].returned = 0

\* The TrainedModel rows of job j that are flagged best.
BestOf(j) == {m \in 1..Len(models) : models[m].training_job = j /\ models[m].is_best}

\* The ids in a list of trained models.
Elems(ids) == {ids[k] : k \in 1..Len(ids)}

\* C3: a job never has more than one TrainedModel flagged best; once a
\* classification job is COMPLETED exactly one is, it is one of the
\* successfully trained candidates, and no successfully trained candidate has
\* a larger weighted F1 (a candidate without the metric counting as 0).
C3_ClassificationBestIsMaxF1 ==
    \A j \in JobIds :
        /\ Cardinality(BestOf(j)) <= 1
        /\ (jobs[j].status = "completed" /\ jobs[j].task_type = "classification")
           => /\ Cardinality(BestOf(j)) = 1
              /\ BestOf(j) \subseteq Elems(runner[j].trained_models)
              /\ \A b \in BestOf(j), m \in Elems(runner[j].trained_models) :
                    (IF models[m].metric = NoMetric THEN 0 ELSE models[m].metric)
                    <= (IF models[b].metric = NoMetric THEN 0 ELSE models[b].metric)

C3_Witness ==
    \E j \in JobIds :
        /\ jobs[j].status = "completed" /\ jobs[j].task_type = "classification"
        /\ \E b \in BestOf(j), m \in Elems(runner[j].trained_models) :
              /\ models[m].metric # NoMetric
              /\ models[b].metric # NoMetric
              /\ models[m].metric < models[b].metric
              /\ m < b

\* C4: once a regression job is COMPLETED, the model flagged best has an rmse
\* no larger than that of every successfully trained candidate that has one,
\* and lacks the rmse metric only if every successfully trained candidate
\* lacks it.
C4_RegressionBestIsMinRmse ==
    \A j \in JobIds :
        (jobs[j].status = "completed" /\ jobs[j].task_type = "regression")
        => /\ BestOf(j) # {}
           /\ \A b \in BestOf(j), m \in Elems(runner[j].trained_models) :
                 models[m].metric # NoMetric
                 => (models[b].metric # NoMetric /\ models[b].metric <= models[m].metric)

C4_Witness ==
    \E j \in JobIds :
        /\ jobs[j].status = "completed" /\ jobs[j].task_type = "regression"
        /\ \E b \in BestOf(j), m, n \in Elems(runner[j].trained_models) :
              /\ models[m].metric = NoMetric
              /\ models[n].metric # NoMetric
              /\ models[b].metric < models[n].metric
              /\ m < b

\* The run of job j is over: train has returned or raised.
RunEnded(j) == runner[j].pc \in {"done", "task_except"}

\* The run of job j got as far as the candidate loop and has left it.
PastCandidates(j) ==
    \/ runner[j].pc \in {"trained", "select", "complete", "final_save"}
    \/ /\ RunEnded(j)
       /\ runner[j].exc \notin {"load_error", "split_error", "preprocess_error"}

C6_TrainFailureIsRecorded ==
    \A j \in JobIds :
        runner[j].exc # ""
        => /\ jobs[j].status = "error"
           /\ (runner[j].pc = "task_except" \/ ~runner[j].run_async)
              => /\ jobs[j].error_message = runner[j].exc
                 /\ runner[j].raised = "TrainingError"
           /\ (runner[j].pc = "done" /\ runner[j].run_async)
              => jobs[j].error_message = "Training failed: " \o runner[j].exc

C6_Witness ==
    \E j \in JobIds :
        /\ runner[j].exc = "split_error"
        /\ runner[j].pc = "done"
        /\ jobs[j].error_message = "split_error"

\* C7: once the try block of analyze has raised, the result row is persisted
\* as ERROR with the exception text as error_message, and EDAError is raised
\* to the caller of analyze.
C7_EdaFailureIsRecorded ==
    \A i \in 1..Len(eda_results) :
        runs[i].exc # ""
        => /\ eda_results[i].status = "error"
           /\ eda_results[i].error_message = runs[i].exc
           /\ (runs[i].pc = "task_except" \/ ~runs[i].run_async)
              => runs[i].raised = "EDAError"

C7_Witness ==
    \E i \in 1..Len(eda_results) :
        /\ runs[i].exc = "analysis_error"
        /\ runs[i].pc = "done"
        /\ ~runs[i].run_async
        /\ eda_results[i].status = "error"

\* pending -> running -> {completed, error, cancelled}, terminal statuses final.
JobStatusStep(old, new) ==
    \/ new = old
    \/ old = "pending" /\ new = "running"
    \/ old = "running" /\ new \in {"completed", "error", "cancelled"}

\* C8: the persisted status of a TrainingJob only moves pending -> running ->
\* {completed, error, cancelled}, and a terminal status never changes.
C8_JobStatusLifecycle ==
    [][\A j \in JobIds : JobStatusStep(jobs[j].status, jobs'[j].status)]_vars

\* C9: the persisted progress of a TrainingJob stays within 0..100, is 100
\* whenever the status is COMPLETED, and never decreases (an ERROR does not
\* reset it).
C9_ProgressMonotone ==
    /\ [](\A j \in JobIds :
            /\ jobs[j].progress >= 0 /\ jobs[j].progress <= 100
            /\ (jobs[j].status = "completed") => (jobs[j].progress = 100))
    /\ [][\A j \in JobIds : jobs'[j].progress >= jobs[j].progress]_vars

C9_Witness ==
    \E j \in JobIds :
        /\ jobs[j].status = "error"
        /\ jobs[j].progress = 90
        /\ runner[j].pc = "done"

\* pending -> running -> {completed, error}, terminal statuses final.
EdaStatusStep(old, new) ==
    \/ new = old
    \/ old = "pending" /\ new = "running"
    \/ old = "running" /\ new \in {"completed", "error"}

\* C10: the persisted status of an EDAResult only moves pending -> running ->
\* {completed, error}; COMPLETED and ERROR never change and no row returns to
\* pending, for synchronous requests and for tasks.
C10_EdaStatusLifecycle ==
    [][\A i \in 1..Len(eda_results) : EdaStatusStep(eda_results[i].status, eda_results'[i].status)]_vars

C10_Witness ==
    \E i, k \in 1..Len(eda_results) :
        /\ runs[i].pc = "done" /\ runs[i].run_async /\ runs[i].exc # ""
        /\ eda_results[i].status = "error"
        /\ runs[k].pc = "done" /\ runs[k].run_async
        /\ eda_results[k].status = "completed"

\* The rows of dataset d in a table.
RowsOf(rows, d) == {i \in 1..Len(rows) : rows[i].dataset = d}

\* C11: no two persisted EDAResults of a dataset share a version, the first
\* one persisted for a dataset has version 1, and each newly persisted result
\* has a version greater than every version persisted for its dataset before
\* it, also when save() calls interleave.
C11_VersionsUniqueIncreasing ==
    /\ [](\A i, k \in 1..Len(eda_results) :
            /\ (i # k /\ eda_results[i].dataset = eda_results[k].dataset)
               => eda_results[i].version # eda_results[k].version
            /\ (\A n \in RowsOf(eda_results, eda_results[i].dataset) : i <= n)
               => eda_results[i].version = 1)
    /\ [][Len(eda_results') = Len(eda_results) + 1
          => \A i \in RowsOf(eda_results, eda_results'[Len(eda_results')].dataset) :
                eda_results[i].version < eda_results'[Len(eda_results')].version]_vars

C11_Witness ==
    \E s \in Savers, i, k \in 1..Len(eda_results) :
        /\ saves[s].raised = "IntegrityError"
        /\ eda_results[i].dataset = saves[s].dataset
        /\ eda_results[k].dataset = saves[s].dataset
        /\ eda_results[i].version = 1
        /\ eda_results[k].version = 2

\* C12: the cache lookup returns a row only if that row is COMPLETED and has
\* the key, returns nothing exactly when no COMPLETED row has the key, and
\* among several COMPLETED rows with the key returns the one created last.
C12_LookupOnlyCompletedNewest ==
    lookup # NoLookup
    => LET hits == {i \in 1..Len(eda_results) :
                        /\ eda_results[i].status = "completed"
                        /\ eda_results[i].cache_key = lookup.key}
       IN  /\ (lookup.found = 0) <=> (hits = {})
           /\ lookup.found # 0
              => /\ lookup.found \in hits
                 /\ \A i \in hits : i <= lookup.found

C12_Witness ==
    /\ lookup.found = 1
    /\ Len(eda_results) = 2
    /\ eda_results[2].cache_key = lookup.key
    /\ eda_results[2].status = "error"

\* The TrainedModel row of job j for its c-th candidate, if any.
ModelOfCandidate(j, c) ==
    {m \in 1..Len(models) :
        /\ models[m].training_job = j
        /\ models[m].name = CandidateName(jobs[j].task_type, c)}

\* C13: a candidate whose SHAP computation failed is persisted with empty
\* shap_values and its artifact, is counted as successfully trained, and is
\* the best model of a COMPLETED job when its metric beats every other
\* trained candidate's; the step that trains it leaves the job row as it was.
C13_ShapFailureAbsorbed ==
    /\ [](\A j \in JobIds : \A c \in runner[j].shap_failed :
            \E m \in ModelOfCandidate(j, c) :
                /\ models[m].shap_values = ""
                /\ models[m].model_size = 1
                /\ m \in Elems(runner[j].trained_models)
                /\ (/\ jobs[j].status = "completed"
                    /\ jobs[j].task_type = "classification"
                    /\ \A n \in Elems(runner[j].trained_models) \ {m} :
                          F1Key(models[n]) < F1Key(models[m]))
                   => models[m].is_best)
    /\ [][\A j \in JobIds :
            runner'[j].shap_failed # runner[j].shap_failed => jobs'[j] = jobs[j]]_vars

C13_Witness ==
    \E j \in JobIds : \E c \in runner[j].shap_failed : \E m \in ModelOfCandidate(j, c) :
        /\ jobs[j].status = "completed"
        /\ runner[j].pc = "done"
        /\ models[m].is_best
        /\ models[m].shap_values = ""
        /\ Len(runner[j].trained_models) >= 2

\* C14 as stated: whenever the narrative step of a run failed, the result is
\* COMPLETED with its statistics and ai_insights is the empty string.
C14_AiFailureGivesEmptyString ==
    \A i \in 1..Len(eda_results) :
        runs[i].ai \in {"call_fails", "raises"} =>
            /\ eda_results[i].status = "completed"
            /\ eda_results[i].populated
            /\ eda_results[i].ai_insights = ""

\* C14 amended: whenever the narrative step of a run did not produce the
\* collaborator's text, the result is COMPLETED with its statistics;
\* ai_insights is the fallback text when the collaborator's call failed, and
\* the empty string when the step raised or the collaborator is unavailable.
C14_AiFailureIsAbsorbed ==
    \A i \in 1..Len(eda_results) :
        runs[i].ai \in {"call_fails", "raises", "unavailable"} =>
            /\ eda_results[i].status = "completed"
            /\ eda_results[i].populated
            /\ eda_results[i].cache_key = file_hash[eda_results[i].dataset]
            /\ eda_results[i].ai_insights =
                  IF runs[i].ai = "call_fails" THEN _fallback_eda_insights ELSE ""

C14_Witness ==
    \E i, k \in 1..Len(eda_results) :
        /\ runs[i].ai = "call_fails"
        /\ eda_results[i].status = "completed"
        /\ eda_results[i].ai_insights = "fallback"
        /\ runs[k].ai = "raises"
        /\ eda_results[k].ai_insights = ""

\* C15: the persisted status of a PredictionJob starts as pending and only
\* moves pending -> running -> completed or error, on every path.
C15_PredictionStatusLifecycle ==
    [][/\ \A j \in 1..Len(pred_jobs) :
            \/ pred_jobs'[j].status = pred_jobs[j].status
            \/ <<pred_jobs[j].status, pred_jobs'[j].status>> \in
                  {<<"pending", "running">>, <<"running", "completed">>,
                   <<"running", "error">>}
       /\ \A j \in (Len(pred_jobs) + 1)..Len(pred_jobs') :
            pred_jobs'[j].status = "pending"]_vars

\* The columns of feature_columns that no record of data has.
MissingColumns(feature_columns, data) ==
    {c \in feature_columns : \A i \in 1..Len(data) : c \notin data[i]}

\* C16: a call of predict whose records lack a feature column, or whose input
\* is empty, never invokes pipeline.predict; once the pipeline is loaded it
\* ends with ValidationError, with code MISSING_COLUMNS and exactly the
\* missing columns, or with code EMPTY_INPUT for empty input.
C16_MissingColumnsRejected ==
    LET missing == MissingColumns(pred_call.feature_columns, pred_call.data)
        empty   == pred_call.data = <<>>
    IN
    (missing # {} \/ empty) =>
        /\ ~pred_call.predict_called
        /\ pred_call.pc # "predict"
        /\ (pred_call.pc = "done" /\ pred_call.error.raised # "PredictionError") =>
              /\ pred_call.error.raised = "ValidationError"
              /\ pred_call.error.code = IF empty THEN "EMPTY_INPUT" ELSE "MISSING_COLUMNS"
              /\ ~empty => pred_call.error.missing = missing

C16_Witness ==
    /\ pred_call.pc = "done"
    /\ Len(pred_call.data) = 2
    /\ pred_call.data[1] # pred_call.data[2]
    /\ pred_call.error.code = "MISSING_COLUMNS"
    /\ pred_call.error.missing = {"b"}
    /\ pred_call.feature_columns = {"a", "b"}
    /\ "a" \notin pred_call.data[1]

\* C17: when an asynchronous EDA, training or batch-prediction task has
\* ended after a failure, its row has status ERROR and a non-empty error
\* message; and a task that has ended is never executed again.
C17_TaskFailureRecordedOnce ==
    /\ [](/\ \A i \in 1..Len(eda_results) :
               (runs[i].run_async /\ runs[i].pc = "done" /\ runs[i].exc # "") =>
                    /\ eda_results[i].status = "error"
                    /\ eda_results[i].error_message # ""
          /\ \A j \in 1..Len(jobs) :
               (runner[j].run_async /\ runner[j].pc = "done" /\ runner[j].exc # "") =>
                    /\ jobs[j].status = "error"
                    /\ jobs[j].error_message # ""
          /\ \A j \in 1..Len(pred_jobs) :
               (pred_runs[j].mode = "async" /\ pred_runs[j].pc = "done"
                    /\ pred_runs[j].exc # "") =>
                    /\ pred_jobs[j].status = "error"
                    /\ pred_jobs[j].error_message # "")
    /\ [][/\ \A i \in 1..Len(eda_results) : runs[i].pc = "done" => runs'[i].pc = "done"
          /\ \A j \in 1..Len(jobs) : runner[j].pc = "done" => runner'[j].pc = "done"
          /\ \A j \in 1..Len(pred_jobs) :
                /\ pred_runs[j].pc = "done" => pred_runs'[j].pc = "done"
                /\ pred_runs'[j].executions <= 1]_vars

\* C18: when a time limit fired in an asynchronous EDA task and the task has
\* ended, its EDAResult has status ERROR, wherever the limit fired.
C18_TimeLimitMarksError ==
    \A i \in 1..Len(eda_results) :
        (runs[i].limit # "" /\ runs[i].pc \in {"done", "killed"}) =>
            eda_results[i].status = "error"

\* C19: without force_refresh, two COMPLETED results with the same cache key
\* exist only when their computations overlapped (each had passed the cache
\* check before the other completed); and every computation that finishes
\* without an error, overlapping or not, is COMPLETED under the content hash,
\* so two overlapping first-time computations leave two such rows.
C19_OneCompletedPerKeyUnlessOverlap ==
    /\ \A i, k \in 1..Len(eda_results) :
          (/\ i # k
           /\ eda_results[i].status = "completed"
           /\ eda_results[k].status = "completed"
           /\ eda_results[i].cache_key = eda_results[k].cache_key)
          => (runs[i].overlap /\ runs[k].overlap)
    /\ \A i \in 1..Len(eda_results) :
          (runs[i].pc = "done" /\ runs[i].returned = i) =>
              /\ eda_results[i].status = "completed"
              /\ eda_results[i].cache_key = content[eda_results[i].dataset]

C19_Witness ==
    \E i, k \in 1..Len(eda_results) :
        /\ i # k
        /\ runs[i].overlap /\ runs[k].overlap
        /\ eda_results[i].status = "completed"
        /\ eda_results[k].status = "completed"
        /\ eda_results[i].cache_key = eda_results[k].cache_key
        /\ eda_results[i].dataset # eda_results[k].dataset

\* C20: after any sequence of creations and deletions, every EDAResult and
\* TrainingJob belongs to a dataset that exists, every TrainedModel to a job
\* and a dataset that exist, and every PredictionJob to a model that exists.
C20_NoOrphans ==
    /\ \A r \in Rows : db.eda[r] # 0 => db.datasets[db.eda[r]] = "live"
    /\ \A j \in Rows : db.jobs[j].state = "live" =>
            db.datasets[db.jobs[j].dataset] = "live"
    /\ \A m \in Rows : db.models[m].state = "live" =>
            /\ db.jobs[db.models[m].training_job].state = "live"
            /\ db.datasets[db.models[m].dataset] = "live"
    /\ \A p \in Rows : db.preds[p] # 0 => db.models[db.preds[p]].state = "live"

\* A dataset was deleted together with a job and a model of it (only the
\* deletion of a dataset deletes a job), no prediction job is left, and
\* another dataset is still there with an EDAResult.
C20_Witness ==
    /\ \E d \in Datasets : db.datasets[d] = "deleted"
    /\ \E j \in Rows : db.jobs[j].state = "deleted"
    /\ \E m \in Rows : db.models[m].state = "deleted"
    /\ \A p \in Rows : db.preds[p] = 0
    /\ \E r \in Rows : db.eda[r] # 0 /\ db.datasets[db.eda[r]] = "live"

\* C21: the detector returns classification for a boolean, object or
\* category target, else for a target with exactly 2 distinct values, else
\* when distinct/rows <= 5% and distinct <= 20, and regression otherwise;
\* the call leaves the target column as it was.
C21_DetectTaskType ==
    /\ [](call.fn = "_detect_task_type" /\ call.pc = "done" =>
            LET t        == call.target_series
                rows     == t.distinct * t.each + t.nan
                expected ==
                    CASE t.dtype \in {"bool", "object", "category"} -> "classification"
                      [] OTHER ->
                          IF t.distinct = 2 THEN "classification"
                          ELSE IF 100 * t.distinct <= 5 * rows /\ t.distinct <= 20
                          THEN "classification"
                          ELSE "regression"
            IN call.result = expected)
    /\ [][call.fn = "_detect_task_type" => call'.target_series = call.target_series]_vars

\* The six-row target [0,1,0,1,0,1]: numeric, two values three times each.
C21_Witness ==
    /\ call.fn = "_detect_task_type"
    /\ call.pc = "done"
    /\ call.target_series = [dtype |-> "int64", distinct |-> 2, each |-> 3, nan |-> 0]
    /\ call.result = "classification"

\* x brought into the range 2..5.
Clamp2To5(x) == IF x < 2 THEN 2 ELSE IF x > 5 THEN 5 ELSE x

\* C22: the fold count of a candidate is the smallest class count
\* (classification) or a fifth of the rows, rounded down (regression),
\* brought into 2..5; the fallback K-fold has a fifth of the rows brought
\* into 2..5; every fold count used is between 2 and 5.
C22_FoldCount ==
    (call.fn = "cv" /\ call.pc # "start") =>
        LET rows     == SumSeq(call.counts)
            smallest == CHOOSE c \in 1..MaxCount :
                            /\ \E i \in 1..Len(call.counts) : call.counts[i] = c
                            /\ \A i \in 1..Len(call.counts) : call.counts[i] >= c
            fifth    == CHOOSE q \in 0..rows : 5 * q <= rows /\ rows < 5 * (q + 1)
        IN
        /\ call.n_folds = IF call.task_type = "classification"
                          THEN Clamp2To5(smallest) ELSE Clamp2To5(fifth)
        /\ call.n_folds \in 2..5
        /\ call.pc = "done" =>
              /\ call.cv \in 2..5
              /\ call.cv = IF call.fallback THEN Clamp2To5(fifth) ELSE call.n_folds

\* A classification target with classes of 4 and 13 rows: 4 folds, and 3
\* folds in the fallback K-fold (17 rows).
C22_Witness ==
    /\ call.fn = "cv"
    /\ call.pc = "done"
    /\ call.task_type = "classification"
    /\ call.counts = <<4, 13>>
    /\ call.n_folds = 4
    /\ call.fallback
    /\ call.cv = 3

\* The key metric of a model dict as compare_models reads it: an absent
\* f1_weighted counts as 0, an absent rmse as infinity.
KeyMetric(m, task_type) ==
    IF m.metric = NoMetric
    THEN (IF task_type = "classification" THEN 0 ELSE MaxMetric + 1)
    ELSE m.metric

\* C23: compare_models returns the input models, each once, by descending
\* weighted F1 (classification) or ascending RMSE (regression), with rank =
\* position and is_best on the first only: for a non-empty input exactly one
\* model is flagged and no model has a better key metric.
C23_CompareModelsRanks ==
    (call.fn = "compare_models" /\ call.pc = "done") =>
        LET r  == call.result
            tt == call.task_type
        IN
        /\ Len(r) = Len(call.models)
        /\ \A n \in 1..Len(call.models) :
              Cardinality({i \in 1..Len(r) : r[i].name = n
                                /\ r[i].metric = call.models[n].metric}) = 1
        /\ \A i \in 1..Len(r) : r[i].rank = i /\ (r[i].is_best <=> i = 1)
        /\ \A i \in 1..(Len(r) - 1) :
              IF tt = "classification"
              THEN KeyMetric(r[i], tt) >= KeyMetric(r[i + 1], tt)
              ELSE KeyMetric(r[i], tt) <= KeyMetric(r[i + 1], tt)
        /\ Len(r) > 0 =>
              /\ Cardinality({i \in 1..Len(r) : r[i].is_best}) = 1
              /\ \A n \in 1..Len(call.models) :
                    IF tt = "classification"
                    THEN KeyMetric(call.models[n], tt) <= KeyMetric(r[1], tt)
                    ELSE KeyMetric(call.models[n], tt) >= KeyMetric(r[1], tt)

\* Three classification models of which the second has the highest F1.
C23_Witness ==
    /\ call.fn = "compare_models"
    /\ call.pc = "done"
    /\ call.task_type = "classification"
    /\ Len(call.models) = 3
    /\ call.models[1].metric = 0
    /\ call.models[2].metric = 1
    /\ call.result[1].name = 2
    /\ call.result[1].is_best

\* C24: the preprocessor of a training job is fitted once, before the first
\* candidate, and never again: no fit of it has completed before the
\* preprocessing step ends, exactly one afterwards, and the run trains at
\* most one candidate at a time.
C24_PreprocessorFittedOnce ==
    \A j \in 1..Len(jobs) :
        /\ runner[j].preprocessor_fits <= 1
        /\ runner[j].pc \in {"candidates", "fit", "trained"} =>
                runner[j].preprocessor_fits = 1
        /\ runner[j].i > 0 => runner[j].preprocessor_fits = 1

\* The checkpoints of a training run in the order the claim gives them; the
\* candidates in the order their set is declared.
Checkpoints(task_type) ==
    <<"Loading data", "Splitting data", "Creating preprocessor", "Training models">>
    \o (IF task_type = "classification"
        THEN <<"Training Logistic Regression">>
        ELSE <<"Training Linear Regression">>)
    \o <<"Training Random Forest", "Training Gradient Boosting",
         "Training Support Vector Machine",
         "Selecting best model", "Complete">>

\* Position of a step among the checkpoints; 0 for the step of a new job.
CheckpointIndex(task_type, step) ==
    IF step = "" THEN 0
    ELSE CHOOSE n \in 1..Len(Checkpoints(task_type)) :
            Checkpoints(task_type)[n] = step

\* C25: current_step of a training job only ever moves to the checkpoint that
\* follows the one it shows (load, split, preprocess, each candidate in
\* declared order, select best, complete), and while it shows the selection
\* of the best model every candidate has been attempted.
C25_StepOrder ==
    /\ [](\A j \in 1..Len(jobs) :
            /\ jobs[j].current_step = ""
                  \/ \E n \in 1..Len(Checkpoints(jobs[j].task_type)) :
                         Checkpoints(jobs[j].task_type)[n] = jobs[j].current_step
            /\ jobs[j].current_step \in {"Selecting best model", "Complete"}
                  => runner[j].i = NumCandidates)
    /\ [][\A j \in 1..Len(jobs) :
            jobs'[j].current_step # jobs[j].current_step =>
                CheckpointIndex(jobs[j].task_type, jobs'[j].current_step)
                    = CheckpointIndex(jobs[j].task_type, jobs[j].current_step) + 1]_vars

\* A regression job that reported every checkpoint up to the last one.
C25_Witness ==
    \E j \in 1..Len(jobs) :
        /\ jobs[j].task_type = "regression"
        /\ jobs[j].current_step = "Complete"
        /\ runner[j].i = NumCandidates

\* C26: whenever the persisted status of a TrainingJob is COMPLETED, its
\* best_model is set and is the one model of that job flagged is_best.
C26_CompletedHasBestModel ==
    \A j \in 1..Len(jobs) :
        jobs[j].status = "completed"
        => /\ jobs[j].best_model # 0
           /\ {m \in 1..Len(models) :
                   models[m].training_job = j /\ models[m].is_best}
                = {jobs[j].best_model}

\* C27: once the task of an asynchronously triggered EDAResult has run to its
\* end, the row is COMPLETED or ERROR, also when a COMPLETED result with the
\* same cache key existed before.
C27_AsyncResultSettles ==
    \A i \in 1..Len(eda_results) :
        (runs[i].run_async /\ runs[i].pc = "done")
        => eda_results[i].status \in {"completed", "error"}

\* C28: the EDAResult that analyze returns for a dataset belongs to that
\* dataset, on a cache hit as well as after a computation.
C28_ReturnedResultBelongsToDataset ==
    /\ last_hit.returned # 0
          => eda_results[last_hit.returned].dataset = last_hit.dataset
    /\ \A i \in 1..Len(eda_results) :
          runs[i].returned # 0
          => eda_results[runs[i].returned].dataset = eda_results[i].dataset

\* C29: every TrainedModel row is a successfully trained candidate of its
\* job, with its artifact stored and a byte size recorded; a candidate that
\* failed leaves no row.
C29_RowsAreTrainedCandidates ==
    \A m \in 1..Len(models) :
        /\ models[m].model_size > 0
        /\ \E k \in 1..Len(runner[models[m].training_job].trained_models) :
               runner[models[m].training_job].trained_models[k] = m

\* C30: once an inline prediction request or a synchronous batch request has
\* returned, the PredictionJob it created is COMPLETED or ERROR, whatever the
\* failure was.
C30_RequestSettlesPredictionJob ==
    \A j \in 1..Len(pred_jobs) :
        (pred_runs[j].mode \in {"inline", "sync"} /\ pred_runs[j].pc = "done")
        => pred_jobs[j].status \in {"completed", "error"}

====
